---- MODULE Spec2Model ----
(***************************************************************************)
(* Library management system (Santiago-Sua/Biblioteca): the dual inventory *)
(* (load-order list + ISBN-sorted list), binary search, the FIFO           *)
(* reservation queue, the per-user loan history and the return-fulfilment  *)
(* protocol of GestorPrestamos.devolver_libro.                             *)
(*                                                                         *)
(* Strings (ISBNs) are sequences of character codes; code 0 is the blank   *)
(* (whitespace) and the other codes are printable characters ordered as    *)
(* their code points, so that str.strip() and the lexicographic string     *)
(* comparison of Python are computed, not assumed.                         *)
(* List indices are 0-based as in the source (element i of a Python list   *)
(* is lista[i + 1] here); a dict is a function whose domain is its keys.   *)
(***************************************************************************)
EXTENDS Integers, Sequences, FiniteSets, TLC

VARIABLES
    stock,                \* Libro.stock of every Libro object, by object reference
    inventario_general,   \* GestorInventario.inventario_general (list of Libro)
    inventario_ordenado,  \* GestorInventario.inventario_ordenado (list of Libro)
    usuarios,             \* GestorUsuarios.usuarios (id -> Usuario)
    cola_reservas,        \* GestorReservas.cola_reservas (a Cola)
    historial_prestamos,  \* GestorPrestamos.historial_prestamos (id -> Pila)
    op,                   \* the last operation called, with its arguments
    resultado,            \* what that operation returned
    antes,                \* the state that operation was called in
    pasos,                \* how many operations have changed the state so far
    lista,                \* a list handed to the list algorithms
    buscado,              \* the ISBN handed to busqueda_binaria
    salida,               \* what the stand-alone call returned
    cola,                 \* a stand-alone Cola
    encolados,            \* every record appended to cola, in order
    desencolados,         \* every record desencolar returned, in order
    pila,                 \* a stand-alone Pila
    apilados,             \* every record appended to pila, in order
    desapilados,          \* every record desapilar returned, in order
    otorgados,            \* how many loans each user was granted of each ISBN
    devueltos             \* how many returns of each ISBN each user has made

sysvars == <<stock, inventario_general, inventario_ordenado, usuarios,
             cola_reservas, historial_prestamos, op, resultado, antes, pasos>>
listvars == <<lista, buscado>>
colavars == <<cola, encolados, desencolados>>
pilavars == <<pila, apilados, desapilados>>
cuentavars == <<otorgados, devueltos>>
vars == <<sysvars, listvars, colavars, pilavars, salida, cuentavars>>

\* Python's None; a value that may be None is None or Some(value)
None == <<>>
Some(x) == <<x>>
Valor(o) == o[1]

----------------------------------------------------------------------------
(* Bounds of the model *)

\* largest number of state-changing operations in a run of the loan system
MaxPasos == 5
\* largest timestamp datetime.now() gives (timestamps are 0..MaxFecha)
MaxFecha == 0
\* longest list handed to the list algorithms
MaxLista == 3
\* largest number of encolar calls on the stand-alone queue
MaxEncolados == 3
\* largest number of records pushed on the stand-alone stack
MaxApilados == 3

----------------------------------------------------------------------------
(* Strings *)

Min(a, b) == IF a < b THEN a ELSE b

\* str.strip(): drop leading and trailing whitespace
RECURSIVE lstrip(_)
lstrip(s) == IF s # <<>> /\ Head(s) = 0 THEN lstrip(Tail(s)) ELSE s

RECURSIVE rstrip(_)
rstrip(s) == IF s # <<>> /\ s[Len(s)] = 0 THEN rstrip(SubSeq(s, 1, Len(s) - 1)) ELSE s

strip(s) == rstrip(lstrip(s))

\* Python's a < b on str: lexicographic by code point, a proper prefix is smaller
StrLess(a, b) ==
    \E k \in 0..Min(Len(a), Len(b)) :
        /\ \A i \in 1..k : a[i] = b[i]
        /\ \/ k = Len(a) /\ k < Len(b)
           \/ k < Len(a) /\ k < Len(b) /\ a[k + 1] < b[k + 1]

StrLeq(a, b) == a = b \/ StrLess(a, b)

\* the ISBNs of the books of the model: "a", "ab", "b"
ISBNs == {<<1>>, <<1, 2>>, <<2>>}
\* strings a caller may hand to a search: the ISBNs, "b " and " a" (padded),
\* "aa" (no book), " " (blank)
Entradas == ISBNs \cup {<<2, 0>>, <<0, 1>>, <<1, 1>>, <<0>>}
\* references of Libro objects
Refs == 1..MaxLista
\* user ids: "u", "v"
Usuarios == {<<7>>, <<8>>}
Libros == [isbn : ISBNs, ref : Refs]

----------------------------------------------------------------------------
(* algoritmos_busqueda/busqueda_binaria.py *)

\* the while loop of busqueda_binaria, from (inicio, fin); isbn_buscado is
\* already normalised
RECURSIVE busqueda_binaria_bucle(_, _, _, _)
busqueda_binaria_bucle(lista_ordenada, isbn_buscado, inicio, fin) ==
    IF inicio <= fin
    THEN LET medio == (inicio + fin) \div 2
             isbn_medio == strip(lista_ordenada[medio + 1].isbn)
         IN  IF isbn_medio = isbn_buscado THEN medio
             ELSE IF StrLess(isbn_medio, isbn_buscado)
                  THEN busqueda_binaria_bucle(lista_ordenada, isbn_buscado, medio + 1, fin)
                  ELSE busqueda_binaria_bucle(lista_ordenada, isbn_buscado, inicio, medio - 1)
    ELSE -1

\* the loop run while inicio < fin
RECURSIVE busqueda_binaria_bucle_corto(_, _, _, _)
busqueda_binaria_bucle_corto(lista_ordenada, isbn_buscado, inicio, fin) ==
    IF inicio < fin
    THEN LET medio == (inicio + fin) \div 2
             isbn_medio == strip(lista_ordenada[medio + 1].isbn)
         IN  IF isbn_medio = isbn_buscado THEN medio
             ELSE IF StrLess(isbn_medio, isbn_buscado)
                  THEN busqueda_binaria_bucle_corto(lista_ordenada, isbn_buscado, medio + 1, fin)
                  ELSE busqueda_binaria_bucle_corto(lista_ordenada, isbn_buscado, inicio, medio - 1)
    ELSE -1

busqueda_binaria_corta(lista_ordenada, isbn_buscado) ==
    busqueda_binaria_bucle_corto(lista_ordenada, strip(isbn_buscado), 0, Len(lista_ordenada) - 1)

busqueda_binaria(lista_ordenada, isbn_buscado) ==
    busqueda_binaria_bucle(lista_ordenada, strip(isbn_buscado), 0, Len(lista_ordenada) - 1)

\* busqueda_binaria_recursiva with the base case inicio >= fin
RECURSIVE busqueda_binaria_recursiva_corta(_, _, _, _)
busqueda_binaria_recursiva_corta(lista_ordenada, isbn_buscado, inicio, fin) ==
    LET ultimo == IF fin = None THEN Len(lista_ordenada) - 1 ELSE Valor(fin)
    IN  IF inicio >= ultimo THEN -1
        ELSE LET buscado_normal == strip(isbn_buscado)
                 medio == (inicio + ultimo) \div 2
                 isbn_medio == strip(lista_ordenada[medio + 1].isbn)
             IN  IF isbn_medio = buscado_normal THEN medio
                 ELSE IF StrLess(isbn_medio, buscado_normal)
                      THEN busqueda_binaria_recursiva_corta(
                               lista_ordenada, buscado_normal, medio + 1, Some(ultimo))
                      ELSE busqueda_binaria_recursiva_corta(
                               lista_ordenada, buscado_normal, inicio, Some(medio - 1))

\* busqueda_binaria_recursiva(lista_ordenada, isbn_buscado, inicio, fin):
\* fin is None (the default) or Some(index)
RECURSIVE busqueda_binaria_recursiva(_, _, _, _)
busqueda_binaria_recursiva(lista_ordenada, isbn_buscado, inicio, fin) ==
    LET ultimo == IF fin = None THEN Len(lista_ordenada) - 1 ELSE Valor(fin)
    IN  IF inicio > ultimo THEN -1
        ELSE LET buscado_normal == strip(isbn_buscado)
                 medio == (inicio + ultimo) \div 2
                 isbn_medio == strip(lista_ordenada[medio + 1].isbn)
             IN  IF isbn_medio = buscado_normal THEN medio
                 ELSE IF StrLess(isbn_medio, buscado_normal)
                      THEN busqueda_binaria_recursiva(
                               lista_ordenada, buscado_normal, medio + 1, Some(ultimo))
                      ELSE busqueda_binaria_recursiva(
                               lista_ordenada, buscado_normal, inicio, Some(medio - 1))

\* how many elements of the list the calls of busqueda_binaria_recursiva
\* read (one, lista_ordenada[medio], in every call past the base case)
RECURSIVE examinados_recursiva(_, _, _, _)
examinados_recursiva(lista_ordenada, isbn_buscado, inicio, fin) ==
    LET ultimo == IF fin = None THEN Len(lista_ordenada) - 1 ELSE Valor(fin)
    IN  IF inicio > ultimo THEN 0
        ELSE LET buscado_normal == strip(isbn_buscado)
                 medio == (inicio + ultimo) \div 2
                 isbn_medio == strip(lista_ordenada[medio + 1].isbn)
             IN  IF isbn_medio = buscado_normal THEN 1
                 ELSE IF StrLess(isbn_medio, buscado_normal)
                      THEN 1 + examinados_recursiva(
                                   lista_ordenada, buscado_normal, medio + 1, Some(ultimo))
                      ELSE 1 + examinados_recursiva(
                                   lista_ordenada, buscado_normal, inicio, Some(medio - 1))

\* the while loop of contar_comparaciones_binaria
RECURSIVE contar_comparaciones_bucle(_, _, _, _, _)
contar_comparaciones_bucle(lista_ordenada, isbn_buscado, inicio, fin, comparaciones) ==
    IF inicio <= fin
    THEN LET medio == (inicio + fin) \div 2
             isbn_medio == strip(lista_ordenada[medio + 1].isbn)
         IN  IF isbn_medio = isbn_buscado
             THEN [posicion |-> medio, comparaciones |-> comparaciones + 1,
                   encontrado |-> TRUE]
             ELSE IF StrLess(isbn_medio, isbn_buscado)
                  THEN contar_comparaciones_bucle(lista_ordenada, isbn_buscado,
                                                  medio + 1, fin, comparaciones + 1)
                  ELSE contar_comparaciones_bucle(lista_ordenada, isbn_buscado,
                                                  inicio, medio - 1, comparaciones + 1)
    ELSE [posicion |-> -1, comparaciones |-> comparaciones, encontrado |-> FALSE]

contar_comparaciones_binaria(lista_ordenada, isbn_buscado) ==
    contar_comparaciones_bucle(lista_ordenada, strip(isbn_buscado), 0,
                               Len(lista_ordenada) - 1, 0)

buscar_libro_por_isbn(lista_ordenada, isbn) ==
    LET posicion == busqueda_binaria(lista_ordenada, isbn)
    IN  IF posicion # -1 THEN Some(lista_ordenada[posicion + 1]) ELSE None

----------------------------------------------------------------------------
(* algoritmos_ordenamiento/insercion.py *)

\* lista[i] = x (0-based)
Poner(l, i, x) == [l EXCEPT ![i + 1] = x]

\* the while loop of ordenamiento_insercion (ascending): shift right the
\* elements greater than elemento_actual, from index j down, then place it
RECURSIVE desplazar(_, _, _)
desplazar(lista_libros, j, elemento_actual) ==
    IF j >= 0 /\ ~StrLeq(lista_libros[j + 1].isbn, elemento_actual.isbn)
    THEN desplazar(Poner(lista_libros, j + 1, lista_libros[j + 1]), j - 1, elemento_actual)
    ELSE Poner(lista_libros, j + 1, elemento_actual)

\* the for loop of ordenamiento_insercion, from index i
RECURSIVE ordenamiento_insercion_desde(_, _)
ordenamiento_insercion_desde(lista_libros, i) ==
    IF i >= Len(lista_libros) THEN lista_libros
    ELSE ordenamiento_insercion_desde(
             desplazar(lista_libros, i - 1, lista_libros[i + 1]), i + 1)

\* the while loop with the test < in place of <=: elements equal to
\* elemento_actual are shifted too
RECURSIVE desplazar_iguales(_, _, _)
desplazar_iguales(lista_libros, j, elemento_actual) ==
    IF j >= 0 /\ ~StrLess(lista_libros[j + 1].isbn, elemento_actual.isbn)
    THEN desplazar_iguales(Poner(lista_libros, j + 1, lista_libros[j + 1]), j - 1,
                           elemento_actual)
    ELSE Poner(lista_libros, j + 1, elemento_actual)

RECURSIVE ordenamiento_inestable_desde(_, _)
ordenamiento_inestable_desde(lista_libros, i) ==
    IF i >= Len(lista_libros) THEN lista_libros
    ELSE ordenamiento_inestable_desde(
             desplazar_iguales(lista_libros, i - 1, lista_libros[i + 1]), i + 1)

\* ordenamiento_insercion that does not keep the order of equal keys
ordenamiento_inestable(lista_libros) == ordenamiento_inestable_desde(lista_libros, 1)

\* ordenamiento_insercion(lista_libros, clave='isbn')
ordenamiento_insercion(lista_libros) == ordenamiento_insercion_desde(lista_libros, 1)

\* the for loop of insertar_ordenado from index i (0-based), posicion so far
RECURSIVE posicion_insercion(_, _, _, _)
posicion_insercion(lista_ordenada, valor_nuevo, i, posicion) ==
    IF i >= Len(lista_ordenada) THEN posicion
    ELSE LET valor_actual == lista_ordenada[i + 1].isbn
         IN  IF StrLess(valor_nuevo, valor_actual) THEN i
             ELSE posicion_insercion(lista_ordenada, valor_nuevo, i + 1, i + 1)

\* list.insert(posicion, x)
insert(l, posicion, x) ==
    SubSeq(l, 1, posicion) \o <<x>> \o SubSeq(l, posicion + 1, Len(l))

insertar_ordenado_antes(lista_ordenada, nuevo_libro) ==
    LET EsMenor(i) == StrLess(lista_ordenada[i].isbn, nuevo_libro.isbn)
        n == Cardinality({i \in 1..Len(lista_ordenada) : EsMenor(i)})
    IN  insert(lista_ordenada, n, nuevo_libro)

insertar_ordenado(lista_ordenada, nuevo_libro) ==
    insert(lista_ordenada,
           posicion_insercion(lista_ordenada, nuevo_libro.isbn, 0, 0),
           nuevo_libro)

----------------------------------------------------------------------------
(* estructuras_datos/cola.py *)

EsBlanco(s) == s = <<>> \/ strip(s) = <<>>

\* Cola.__init__
Cola(capacidad) == [elementos |-> <<>>, capacidad_max |-> capacidad]

Cola_esta_vacia(c) == Len(c.elementos) = 0

\* esta_llena of a queue that is never full
Cola_nunca_llena(c) == FALSE

Cola_esta_llena(c) ==
    IF c.capacidad_max = None THEN FALSE
    ELSE Len(c.elementos) >= Valor(c.capacidad_max)

\* Cola.encolar: the queue afterwards, the value returned, and whether it
\* raised ValueError instead of returning
encolar(c, id_usuario, isbn, fecha) ==
    IF EsBlanco(id_usuario) \/ EsBlanco(isbn)
    THEN [cola |-> c, ret |-> FALSE, excepcion |-> TRUE]
    ELSE IF Cola_esta_llena(c)
    THEN [cola |-> c, ret |-> FALSE, excepcion |-> FALSE]
    ELSE LET registro == [id_usuario |-> strip(id_usuario),
                          isbn |-> strip(isbn),
                          fecha |-> fecha]
         IN  [cola |-> [c EXCEPT !.elementos = Append(@, registro)],
              ret |-> TRUE, excepcion |-> FALSE]

desencolar_ultimo(c) ==
    IF Cola_esta_vacia(c) THEN [cola |-> c, ret |-> None]
    ELSE [cola |-> [c EXCEPT !.elementos = SubSeq(@, 1, Len(@) - 1)],
          ret |-> Some(c.elementos[Len(c.elementos)])]

\* Cola.desencolar: self.elementos.pop(0)
desencolar(c) ==
    IF Cola_esta_vacia(c) THEN [cola |-> c, ret |-> None]
    ELSE [cola |-> [c EXCEPT !.elementos = Tail(@)], ret |-> Some(Head(c.elementos))]

\* indices (1-based) of the records for isbn
IndicesLibro(c, isbn) == {i \in 1..Len(c.elementos) : c.elementos[i].isbn = isbn}

IndicesReserva(c, id_usuario, isbn) ==
    {i \in 1..Len(c.elementos) :
        c.elementos[i].id_usuario = id_usuario /\ c.elementos[i].isbn = isbn}

Minimo(S) == CHOOSE x \in S : \A y \in S : x <= y

\* the head of the queue whatever its isbn (Cola.frente)
obtener_siguiente_usuario_frente(c, isbn) ==
    IF Cola_esta_vacia(c) THEN None ELSE Some(c.elementos[1])

\* Cola.obtener_siguiente_usuario: the first record for isbn, not removed
obtener_siguiente_usuario(c, isbn) ==
    IF IndicesLibro(c, isbn) = {} THEN None
    ELSE Some(c.elementos[Minimo(IndicesLibro(c, isbn))])

tiene_reserva(c, id_usuario, isbn) == IndicesReserva(c, id_usuario, isbn) # {}

posicion_usuario(c, id_usuario, isbn) ==
    IF IndicesReserva(c, id_usuario, isbn) = {} THEN -1
    ELSE Minimo(IndicesReserva(c, id_usuario, isbn))

contar_reservas_libro(c, isbn) == Cardinality(IndicesLibro(c, isbn))

\* list.pop(i), i 1-based here
SinElemento(l, i) == SubSeq(l, 1, i - 1) \o SubSeq(l, i + 1, Len(l))

\* the largest element of a set of integers
Maximo(S) == CHOOSE x \in S : \A y \in S : x >= y

\* remover_reserva that removes the last record of the user and the book
remover_reserva_ultima(c, id_usuario, isbn) ==
    IF IndicesReserva(c, id_usuario, isbn) = {} THEN [cola |-> c, ret |-> FALSE]
    ELSE [cola |-> [c EXCEPT !.elementos =
                        SinElemento(@, Maximo(IndicesReserva(c, id_usuario, isbn)))],
          ret |-> TRUE]

\* Cola.remover_reserva
remover_reserva(c, id_usuario, isbn) ==
    IF IndicesReserva(c, id_usuario, isbn) = {} THEN [cola |-> c, ret |-> FALSE]
    ELSE [cola |-> [c EXCEPT !.elementos =
                        SinElemento(@, Minimo(IndicesReserva(c, id_usuario, isbn)))],
          ret |-> TRUE]

----------------------------------------------------------------------------
(* estructuras_datos/pila.py *)

Pila(capacidad) == [elementos |-> <<>>, capacidad_max |-> capacidad]

Pila_esta_vacia(p) == Len(p.elementos) = 0

Pila_esta_llena(p) ==
    IF p.capacidad_max = None THEN FALSE
    ELSE Len(p.elementos) >= Valor(p.capacidad_max)

\* apilar that puts the record under the records of the stack
apilar_al_fondo(p, isbn, fecha) ==
    IF EsBlanco(isbn) THEN [pila |-> p, ret |-> FALSE, excepcion |-> TRUE]
    ELSE IF Pila_esta_llena(p) THEN [pila |-> p, ret |-> FALSE, excepcion |-> FALSE]
    ELSE [pila |-> [p EXCEPT !.elementos =
                        <<[isbn |-> strip(isbn), fecha |-> fecha]>> \o @],
          ret |-> TRUE, excepcion |-> FALSE]

\* Pila.apilar
apilar(p, isbn, fecha) ==
    IF EsBlanco(isbn) THEN [pila |-> p, ret |-> FALSE, excepcion |-> TRUE]
    ELSE IF Pila_esta_llena(p) THEN [pila |-> p, ret |-> FALSE, excepcion |-> FALSE]
    ELSE [pila |-> [p EXCEPT !.elementos =
                        Append(@, [isbn |-> strip(isbn), fecha |-> fecha])],
          ret |-> TRUE, excepcion |-> FALSE]

\* desapilar that removes the oldest record
desapilar_primero(p) ==
    IF Pila_esta_vacia(p) THEN [pila |-> p, ret |-> None]
    ELSE [pila |-> [p EXCEPT !.elementos = Tail(@)], ret |-> Some(Head(p.elementos))]

\* Pila.desapilar: self.elementos.pop()
desapilar(p) ==
    IF Pila_esta_vacia(p) THEN [pila |-> p, ret |-> None]
    ELSE [pila |-> [p EXCEPT !.elementos = SubSeq(@, 1, Len(@) - 1)],
          ret |-> Some(p.elementos[Len(p.elementos)])]

\* Pila.tope: self.elementos[-1]
tope(p) ==
    IF Pila_esta_vacia(p) THEN [pila |-> p, ret |-> None]
    ELSE [pila |-> p, ret |-> Some(p.elementos[Len(p.elementos)])]

\* Pila.obtener_todos: self.elementos.copy()
Pila_obtener_todos(p) == p.elementos

----------------------------------------------------------------------------
(* models/libro.py, models/usuario.py *)

\* Libro.decrementar_stock, on the stock of the object
decrementar_stock(n) == IF n > 0 THEN n - 1 ELSE n

\* Libro.incrementar_stock
incrementar_stock(n) == n + 1

\* Libro.esta_disponible
esta_disponible(n) == n > 0

\* Usuario.__init__ as registrar_usuario calls it
Usuario(max_prestamos) ==
    [activo |-> TRUE, libros_prestados |-> 0, max_prestamos |-> max_prestamos]

\* puede_prestar without the limit of loans
puede_prestar_sin_tope(u) == u.activo

\* Usuario.puede_prestar
puede_prestar(u) == u.activo /\ u.libros_prestados < u.max_prestamos

\* Usuario.incrementar_prestamos
incrementar_prestamos(u) ==
    IF puede_prestar(u) THEN [u EXCEPT !.libros_prestados = @ + 1] ELSE u

\* Usuario.decrementar_prestamos
decrementar_prestamos(u) ==
    IF u.libros_prestados > 0 THEN [u EXCEPT !.libros_prestados = @ - 1] ELSE u

----------------------------------------------------------------------------
(* The managers. An operation is a function of the state s it is called in *)
(* (the fields of the four managers) and of its arguments, to the state    *)
(* afterwards and the value returned.                                      *)

Estado ==
    [stock |-> stock,
     inventario_general |-> inventario_general,
     inventario_ordenado |-> inventario_ordenado,
     usuarios |-> usuarios,
     cola_reservas |-> cola_reservas,
     historial_prestamos |-> historial_prestamos]

\* a dict with key k set to v
Con(d, k, v) == [x \in DOMAIN d \cup {k} |-> IF x = k THEN v ELSE d[x]]

\* GestorInventario.buscar_por_isbn
buscar_por_isbn(s, isbn) == buscar_libro_por_isbn(s.inventario_ordenado, isbn)

\* the ISBNs of the records of a Pila, as devolver_libro lists them
IsbnsPila(p) == {p.elementos[i].isbn : i \in 1..Len(p.elementos)}

\* self.historial_prestamos[id_usuario].apilar(isbn, fecha), the Pila
\* created first when the user has none
apilar_historial(s, id_usuario, isbn, fecha) ==
    LET pila_usuario == IF id_usuario \in DOMAIN s.historial_prestamos
                        THEN s.historial_prestamos[id_usuario]
                        ELSE Pila(None)
    IN  [s EXCEPT !.historial_prestamos =
            Con(@, id_usuario, apilar(pila_usuario, isbn, fecha).pila)]

\* agregar_libro without the check of the ISBN
agregar_libro_sin_verificar(s, isbn, n) ==
    LET libro == [isbn |-> isbn, ref |-> Minimo(Refs \ DOMAIN s.stock)]
    IN  [estado |-> [s EXCEPT
             !.stock = Con(@, libro.ref, n),
             !.inventario_general = Append(@, libro),
             !.inventario_ordenado = insertar_ordenado(@, libro)],
         ret |-> TRUE]

\* GestorInventario.agregar_libro(Libro(isbn, stock=n))
agregar_libro(s, isbn, n) ==
    IF buscar_por_isbn(s, isbn) # None
    THEN [estado |-> s, ret |-> FALSE]
    ELSE LET libro == [isbn |-> isbn, ref |-> Minimo(Refs \ DOMAIN s.stock)]
         IN  [estado |-> [s EXCEPT
                  !.stock = Con(@, libro.ref, n),
                  !.inventario_general = Append(@, libro),
                  !.inventario_ordenado = insertar_ordenado(@, libro)],
              ret |-> TRUE]

\* [libro for libro in l if libro.isbn != isbn]
RECURSIVE SinIsbn(_, _)
SinIsbn(l, isbn) ==
    IF l = <<>> THEN <<>>
    ELSE IF Head(l).isbn # isbn THEN <<Head(l)>> \o SinIsbn(Tail(l), isbn)
         ELSE SinIsbn(Tail(l), isbn)

RefsDe(l) == {l[i].ref : i \in 1..Len(l)}

\* eliminar_libro that removes the book from the general inventory only
eliminar_libro_solo_general(s, isbn) ==
    [estado |-> [s EXCEPT !.inventario_general = SinIsbn(@, isbn)], ret |-> TRUE]

\* GestorInventario.eliminar_libro
eliminar_libro(s, isbn) ==
    LET general == SinIsbn(s.inventario_general, isbn)
        ordenado == SinIsbn(s.inventario_ordenado, isbn)
    IN  [estado |-> [s EXCEPT
             !.inventario_general = general,
             !.inventario_ordenado = ordenado,
             !.stock = [r \in RefsDe(general) \cup RefsDe(ordenado) |-> s.stock[r]]],
         ret |-> TRUE]

\* GestorInventario.actualizar_libro(isbn_original, Libro(isbn, stock=n)),
\* the second definition of that name in the class, which is the one bound
actualizar_libro(s, isbn_original, isbn, n) ==
    LET eliminado == eliminar_libro(s, isbn_original)
    IN  IF eliminado.ret
        THEN agregar_libro(eliminado.estado, isbn, n)
        ELSE [estado |-> eliminado.estado, ret |-> FALSE]

\* GestorPrestamos.crear_prestamo
crear_prestamo(s, id_usuario, isbn, fecha) ==
    LET falla(mensaje) ==
            [estado |-> s, resultado |-> [exito |-> FALSE, mensaje |-> mensaje]]
        libro == buscar_por_isbn(s, isbn)
    IN  IF id_usuario \notin DOMAIN s.usuarios THEN falla("User not found")
        ELSE IF ~s.usuarios[id_usuario].activo THEN falla("User account is inactive")
        ELSE IF ~puede_prestar(s.usuarios[id_usuario])
             THEN falla("User has reached maximum loans")
        ELSE IF libro = None THEN falla("Book not found")
        ELSE IF ~esta_disponible(s.stock[Valor(libro).ref])
             THEN falla("Book is not available")
        ELSE LET s1 == [s EXCEPT
                        !.stock[Valor(libro).ref] = decrementar_stock(@),
                        !.usuarios[id_usuario] = incrementar_prestamos(@)]
             IN  [estado |-> apilar_historial(s1, id_usuario, isbn, fecha),
                  resultado |-> [exito |-> TRUE, mensaje |-> "Loan created successfully"]]

\* procesar_prestamo_automatico that records no loan in the history
procesar_prestamo_automatico_sin_historial(s, id_usuario, isbn, fecha) ==
    LET libro == buscar_por_isbn(s, isbn)
    IN  IF id_usuario \notin DOMAIN s.usuarios \/ libro = None
        THEN [estado |-> s, ret |-> FALSE]
        ELSE IF ~puede_prestar(s.usuarios[id_usuario])
        THEN [estado |-> [s EXCEPT !.stock[Valor(libro).ref] = incrementar_stock(@)],
              ret |-> FALSE]
        ELSE [estado |-> [s EXCEPT !.usuarios[id_usuario] = incrementar_prestamos(@)],
              ret |-> TRUE]

\* GestorPrestamos.procesar_prestamo_automatico
procesar_prestamo_automatico(s, id_usuario, isbn, fecha) ==
    LET libro == buscar_por_isbn(s, isbn)
    IN  IF id_usuario \notin DOMAIN s.usuarios \/ libro = None
        THEN [estado |-> s, ret |-> FALSE]
        ELSE IF ~puede_prestar(s.usuarios[id_usuario])
        THEN [estado |-> [s EXCEPT !.stock[Valor(libro).ref] = incrementar_stock(@)],
              ret |-> FALSE]
        ELSE LET s1 == [s EXCEPT !.usuarios[id_usuario] = incrementar_prestamos(@)]
             IN  [estado |-> apilar_historial(s1, id_usuario, isbn, fecha),
                  ret |-> TRUE]

\* verificar_y_asignar_reserva that takes the head of the queue as the next
\* reservation, whatever its isbn
verificar_y_asignar_reserva_frente(s, isbn, fecha) ==
    LET posicion == busqueda_binaria(s.inventario_ordenado, isbn)
        resultado0 == [libro_encontrado |-> posicion # -1,
                       posicion |-> posicion,
                       tiene_reservas |-> FALSE,
                       usuario_asignado |-> None,
                       reserva_procesada |-> None,
                       prestamo_procesado |-> None]
        siguiente_reserva == obtener_siguiente_usuario_frente(s.cola_reservas, isbn)
        d == desencolar(s.cola_reservas)
        s1 == [s EXCEPT !.cola_reservas = d.cola]
    IN  IF posicion = -1 THEN [estado |-> s, resultado |-> resultado0]
        ELSE IF siguiente_reserva = None THEN [estado |-> s, resultado |-> resultado0]
        ELSE LET reserva == Valor(d.ret)
                 p == procesar_prestamo_automatico(s1, reserva.id_usuario, isbn, fecha)
             IN  [estado |-> p.estado,
                  resultado |-> [resultado0 EXCEPT
                      !.tiene_reservas = TRUE,
                      !.usuario_asignado = Some(reserva.id_usuario),
                      !.reserva_procesada = Some(reserva),
                      !.prestamo_procesado = Some(p.ret)]]

\* verificar_y_asignar_reserva(isbn, inventario_ordenado, cola_reservas,
\* gestor_prestamos); prestamo_procesado is None when the key is not set
verificar_y_asignar_reserva(s, isbn, fecha) ==
    LET posicion == busqueda_binaria(s.inventario_ordenado, isbn)
        resultado0 == [libro_encontrado |-> posicion # -1,
                       posicion |-> posicion,
                       tiene_reservas |-> FALSE,
                       usuario_asignado |-> None,
                       reserva_procesada |-> None,
                       prestamo_procesado |-> None]
        siguiente_reserva == obtener_siguiente_usuario(s.cola_reservas, isbn)
        d == desencolar(s.cola_reservas)
        s1 == [s EXCEPT !.cola_reservas = d.cola]
    IN  IF posicion = -1 THEN [estado |-> s, resultado |-> resultado0]
        ELSE IF siguiente_reserva = None THEN [estado |-> s, resultado |-> resultado0]
        ELSE IF d.ret = None
             THEN [estado |-> s1,
                   resultado |-> [resultado0 EXCEPT !.tiene_reservas = TRUE]]
        ELSE LET reserva == Valor(d.ret)
                 p == procesar_prestamo_automatico(s1, reserva.id_usuario, isbn, fecha)
             IN  [estado |-> p.estado,
                  resultado |-> [resultado0 EXCEPT
                      !.tiene_reservas = TRUE,
                      !.usuario_asignado = Some(reserva.id_usuario),
                      !.reserva_procesada = Some(reserva),
                      !.prestamo_procesado = Some(p.ret)]]

\* GestorPrestamos.devolver_libro, steps 3 to 5: the return of the copy
\* libro by usuario id_usuario, both found
procesar_devolucion(s, id_usuario, isbn, libro, fecha) ==
    LET s1 == [s EXCEPT
               !.stock[libro.ref] = incrementar_stock(@),
               !.usuarios[id_usuario] = decrementar_prestamos(@)]
        v == verificar_y_asignar_reserva(s1, isbn, fecha)
    IN  [estado |-> v.estado,
         resultado |->
            [exito |-> TRUE,
             mensaje |-> "Book returned successfully",
             stock_actual |-> v.estado.stock[libro.ref],
             prestamos_actuales_usuario |->
                 v.estado.usuarios[id_usuario].libros_prestados,
             reserva_asignada |-> v.resultado.tiene_reservas,
             usuario_asignado |-> v.resultado.usuario_asignado,
             verificacion |-> v.resultado]]

\* devolver_libro with the user's loan count decremented before the book
\* is looked up
devolver_libro_decrementa_antes(s, id_usuario, isbn, fecha) ==
    LET libro == buscar_por_isbn(s, isbn)
        s0 == IF id_usuario \in DOMAIN s.usuarios
              THEN [s EXCEPT !.usuarios[id_usuario] = decrementar_prestamos(@)]
              ELSE s
        falla(mensaje) ==
            [estado |-> s0, resultado |-> [exito |-> FALSE, mensaje |-> mensaje]]
    IN  IF id_usuario \notin DOMAIN s.usuarios THEN falla("User not found")
        ELSE IF libro = None THEN falla("Book not found")
        ELSE IF \/ id_usuario \notin DOMAIN s.historial_prestamos
                \/ Pila_esta_vacia(s.historial_prestamos[id_usuario])
             THEN falla("User has no loan history")
        ELSE IF isbn \notin IsbnsPila(s.historial_prestamos[id_usuario])
             THEN falla("User does not have this book on loan")
        ELSE procesar_devolucion(s, id_usuario, isbn, Valor(libro), fecha)

\* GestorPrestamos.devolver_libro
devolver_libro(s, id_usuario, isbn, fecha) ==
    LET falla(mensaje) ==
            [estado |-> s, resultado |-> [exito |-> FALSE, mensaje |-> mensaje]]
        libro == buscar_por_isbn(s, isbn)
    IN  IF id_usuario \notin DOMAIN s.usuarios THEN falla("User not found")
        ELSE IF libro = None THEN falla("Book not found")
        ELSE IF \/ id_usuario \notin DOMAIN s.historial_prestamos
                \/ Pila_esta_vacia(s.historial_prestamos[id_usuario])
             THEN falla("User has no loan history")
        ELSE IF isbn \notin IsbnsPila(s.historial_prestamos[id_usuario])
             THEN falla("User does not have this book on loan")
        ELSE procesar_devolucion(s, id_usuario, isbn, Valor(libro), fecha)

\* crear_reserva without the check of the stock
crear_reserva_con_stock(s, id_usuario, isbn, fecha) ==
    LET falla(mensaje) ==
            [estado |-> s, resultado |-> [exito |-> FALSE, mensaje |-> mensaje]]
        libro == buscar_por_isbn(s, isbn)
        e == encolar(s.cola_reservas, id_usuario, isbn, fecha)
    IN  IF id_usuario \notin DOMAIN s.usuarios THEN falla("User not found")
        ELSE IF libro = None THEN falla("Book not found")
        ELSE IF tiene_reserva(s.cola_reservas, id_usuario, isbn)
             THEN falla("User already has a reservation")
        ELSE IF e.excepcion THEN falla("Error creating reservation")
        ELSE IF ~e.ret THEN falla("Queue is full")
        ELSE [estado |-> [s EXCEPT !.cola_reservas = e.cola],
              resultado |-> [exito |-> TRUE, mensaje |-> "Reservation created successfully"]]

\* crear_reserva without the check of a reservation already queued
crear_reserva_repetida(s, id_usuario, isbn, fecha) ==
    LET falla(mensaje) ==
            [estado |-> s, resultado |-> [exito |-> FALSE, mensaje |-> mensaje]]
        libro == buscar_por_isbn(s, isbn)
        e == encolar(s.cola_reservas, id_usuario, isbn, fecha)
    IN  IF id_usuario \notin DOMAIN s.usuarios THEN falla("User not found")
        ELSE IF libro = None THEN falla("Book not found")
        ELSE IF s.stock[Valor(libro).ref] > 0 THEN falla("Book is available")
        ELSE IF e.excepcion THEN falla("Error creating reservation")
        ELSE IF ~e.ret THEN falla("Queue is full")
        ELSE [estado |-> [s EXCEPT !.cola_reservas = e.cola],
              resultado |-> [exito |-> TRUE, mensaje |-> "Reservation created successfully"]]

\* GestorReservas.crear_reserva
crear_reserva(s, id_usuario, isbn, fecha) ==
    LET falla(mensaje) ==
            [estado |-> s, resultado |-> [exito |-> FALSE, mensaje |-> mensaje]]
        libro == buscar_por_isbn(s, isbn)
        e == encolar(s.cola_reservas, id_usuario, isbn, fecha)
    IN  IF id_usuario \notin DOMAIN s.usuarios THEN falla("User not found")
        ELSE IF libro = None THEN falla("Book not found")
        ELSE IF s.stock[Valor(libro).ref] > 0 THEN falla("Book is available")
        ELSE IF tiene_reserva(s.cola_reservas, id_usuario, isbn)
             THEN falla("User already has a reservation")
        ELSE IF e.excepcion THEN falla("Error creating reservation")
        ELSE IF ~e.ret THEN falla("Queue is full")
        ELSE [estado |-> [s EXCEPT !.cola_reservas = e.cola],
              resultado |-> [exito |-> TRUE, mensaje |-> "Reservation created successfully"]]

\* GestorReservas.cancelar_reserva
cancelar_reserva(s, id_usuario, isbn) ==
    LET r == remover_reserva(s.cola_reservas, id_usuario, isbn)
    IN  IF ~tiene_reserva(s.cola_reservas, id_usuario, isbn)
        THEN [estado |-> s,
              resultado |-> [exito |-> FALSE, mensaje |-> "User does not have a reservation"]]
        ELSE IF r.ret
        THEN [estado |-> [s EXCEPT !.cola_reservas = r.cola],
              resultado |-> [exito |-> TRUE, mensaje |-> "Reservation cancelled successfully"]]
        ELSE [estado |-> [s EXCEPT !.cola_reservas = r.cola],
              resultado |-> [exito |-> FALSE, mensaje |-> "Error removing reservation from queue"]]

\* a dict without key k: del d[k]
Sin(d, k) == [x \in DOMAIN d \ {k} |-> d[x]]

\* Usuario.tiene_prestamos_pendientes
tiene_prestamos_pendientes(u) == u.libros_prestados > 0

\* eliminar_usuario without the check of the pending loans
eliminar_usuario_sin_verificar(s, id_usuario) ==
    IF id_usuario \notin DOMAIN s.usuarios
    THEN [estado |-> s, resultado |-> [exito |-> FALSE, mensaje |-> "User not found"]]
    ELSE [estado |-> [s EXCEPT !.usuarios = Sin(@, id_usuario)],
          resultado |-> [exito |-> TRUE, mensaje |-> "User deleted successfully"]]

\* GestorUsuarios.eliminar_usuario
eliminar_usuario(s, id_usuario) ==
    IF id_usuario \notin DOMAIN s.usuarios
    THEN [estado |-> s, resultado |-> [exito |-> FALSE, mensaje |-> "User not found"]]
    ELSE IF tiene_prestamos_pendientes(s.usuarios[id_usuario])
    THEN [estado |-> s,
          resultado |-> [exito |-> FALSE, mensaje |-> "User has pending loans"]]
    ELSE [estado |-> [s EXCEPT !.usuarios = Sin(@, id_usuario)],
          resultado |-> [exito |-> TRUE, mensaje |-> "User deleted successfully"]]

----------------------------------------------------------------------------
(* The list algorithms called on their own: a list grown from the empty    *)
(* list by insertar_ordenado, searched by busqueda_binaria                 *)

InitListas ==
    /\ lista = <<>>
    /\ buscado = <<>>

InitSalida == salida = [op |-> "ninguna"]

\* no loan granted and no return made yet
InitCuentas ==
    /\ otorgados = [par \in Usuarios \X ISBNs |-> 0]
    /\ devueltos = [par \in Usuarios \X ISBNs |-> 0]

\* insertar_ordenado(lista, nuevo_libro) with a new Libro object
Insertar(isbn) ==
    /\ Len(lista) < MaxLista
    /\ LET nuevo_libro == [isbn |-> isbn, ref |-> Len(lista) + 1]
       IN  /\ lista' = insertar_ordenado(lista, nuevo_libro)
           /\ salida' = [op |-> "insertar_ordenado", antes |-> lista,
                         nuevo_libro |-> nuevo_libro]
    /\ UNCHANGED buscado

\* busqueda_binaria(lista, isbn_buscado)
Buscar(isbn_buscado) ==
    /\ buscado' = isbn_buscado
    /\ salida' = [op |-> "busqueda_binaria",
                  ret |-> busqueda_binaria(lista, isbn_buscado)]
    /\ UNCHANGED lista

NextListas ==
    \/ \E isbn \in ISBNs : Insertar(isbn)
    \/ \E isbn_buscado \in Entradas : Buscar(isbn_buscado)

----------------------------------------------------------------------------
(* A Cola used on its own *)

\* user ids a caller may hand to the queue: the ids, "u " (padded), " " (blank)
EntradasUsuario == Usuarios \cup {<<7, 0>>, <<0>>}
Fechas == 0..MaxFecha
Capacidades == {None} \cup {Some(n) : n \in 1..MaxEncolados}

InitCola ==
    /\ cola \in {Cola(capacidad) : capacidad \in Capacidades}
    /\ encolados = <<>>
    /\ desencolados = <<>>

\* cola.encolar(id_usuario, isbn, fecha)
Encolar(id_usuario, isbn, fecha) ==
    /\ Len(encolados) < MaxEncolados
    /\ LET r == encolar(cola, id_usuario, isbn, fecha)
       IN  /\ cola' = r.cola
           /\ encolados' = IF r.ret
                            THEN Append(encolados, r.cola.elementos[Len(r.cola.elementos)])
                            ELSE encolados
           /\ salida' = [op |-> "encolar", ret |-> r.ret, excepcion |-> r.excepcion,
                         antes |-> cola, id_usuario |-> id_usuario, isbn |-> isbn,
                         fecha |-> fecha]
    /\ UNCHANGED desencolados

\* cola.desencolar()
Desencolar ==
    /\ LET r == desencolar(cola)
       IN  /\ cola' = r.cola
           /\ desencolados' = IF r.ret = None THEN desencolados
                               ELSE Append(desencolados, Valor(r.ret))
           /\ salida' = [op |-> "desencolar", ret |-> r.ret]
    /\ UNCHANGED encolados

NextCola ==
    \/ \E id_usuario \in EntradasUsuario, isbn \in Entradas, fecha \in Fechas :
            Encolar(id_usuario, isbn, fecha)
    \/ Desencolar

----------------------------------------------------------------------------
(* The system: the four managers after construction, and the operations    *)
(* the windows call on them                                                *)

\* the books of the data file of the loan system: "a", "b"
ISBNsSistema == {<<1>>, <<2>>}
\* the stock a book is added or loaded with
StocksIniciales == 0..1

\* max_prestamos of the users of the data file: u may hold 1 book, v 2
MaxPrestamosArchivo == (<<7>> :> 1) @@ (<<8>> :> 2)
\* the timestamp of the operations on the system: the clock stands still
FechasSistema == {0}

\* the book lists of the data file, in load order: "a" alone (no book "b"),
\* and "b" then "a" (not sorted)
Inventarios ==
    {<<[isbn |-> <<1>>, ref |-> 1]>>,
     <<[isbn |-> <<2>>, ref |-> 1], [isbn |-> <<1>>, ref |-> 2]>>}

\* GestorInventario.cargar_inventario: the general inventory is the file's
\* list, the sorted inventory a copy sorted by ordenamiento_insercion
cargar_inventario(datos) ==
    [inventario_general |-> datos,
     inventario_ordenado |-> ordenamiento_insercion(datos)]

\* no data file: the inventory, the queue and the histories are empty and
\* no user is registered
InitVacio ==
    /\ stock = <<>>
    /\ inventario_general = <<>>
    /\ inventario_ordenado = <<>>
    /\ usuarios = <<>>
    /\ cola_reservas = Cola(None)
    /\ historial_prestamos = <<>>
    /\ op = [nombre |-> "ninguna"]
    /\ resultado = [exito |-> TRUE]
    /\ antes = <<>>
    /\ pasos = 0

\* data files of books and users (users u and v, with no loan yet), no
\* reservation and no loan history
InitSistema ==
    /\ \E datos \in Inventarios :
        /\ inventario_general = cargar_inventario(datos).inventario_general
        /\ inventario_ordenado = cargar_inventario(datos).inventario_ordenado
        /\ stock \in [RefsDe(datos) -> StocksIniciales]
    /\ \E activos \in [Usuarios -> BOOLEAN] :
        usuarios = [u \in Usuarios |->
                       [activo |-> activos[u], libros_prestados |-> 0,
                        max_prestamos |-> MaxPrestamosArchivo[u]]]
    /\ cola_reservas = Cola(None)
    /\ historial_prestamos = <<>>
    /\ op = [nombre |-> "ninguna"]
    /\ resultado = [exito |-> TRUE]
    /\ antes = <<>>
    /\ pasos = 0

\* the managers' fields become those of s
Pasa(s) ==
    /\ stock' = s.stock
    /\ inventario_general' = s.inventario_general
    /\ inventario_ordenado' = s.inventario_ordenado
    /\ usuarios' = s.usuarios
    /\ cola_reservas' = s.cola_reservas
    /\ historial_prestamos' = s.historial_prestamos
    /\ antes' = Estado

\* one more operation of a run of at most MaxPasos operations that change
\* the state (an operation that fails changes nothing and is not counted)
Cuenta(s) ==
    /\ pasos' = IF s = Estado THEN pasos ELSE pasos + 1
    /\ pasos' <= MaxPasos

AgregarLibro(isbn, n) ==
    /\ Refs \ DOMAIN stock # {}
    /\ LET r == agregar_libro(Estado, isbn, n)
       IN  /\ Pasa(r.estado)
           /\ resultado' = [exito |-> r.ret]
    /\ op' = [nombre |-> "agregar_libro", isbn |-> isbn, stock |-> n]
    /\ UNCHANGED pasos

EliminarLibro(isbn) ==
    /\ LET r == eliminar_libro(Estado, isbn)
       IN  /\ Pasa(r.estado)
           /\ resultado' = [exito |-> r.ret]
    /\ op' = [nombre |-> "eliminar_libro", isbn |-> isbn]
    /\ UNCHANGED pasos

CrearPrestamo(id_usuario, isbn, fecha) ==
    /\ LET r == crear_prestamo(Estado, id_usuario, isbn, fecha)
       IN  /\ Pasa(r.estado)
           /\ Cuenta(r.estado)
           /\ resultado' = r.resultado
    /\ op' = [nombre |-> "crear_prestamo", id_usuario |-> id_usuario, isbn |-> isbn]

DevolverLibro(id_usuario, isbn, fecha) ==
    /\ LET r == devolver_libro(Estado, id_usuario, isbn, fecha)
       IN  /\ Pasa(r.estado)
           /\ Cuenta(r.estado)
           /\ resultado' = r.resultado
    /\ op' = [nombre |-> "devolver_libro", id_usuario |-> id_usuario, isbn |-> isbn]

CrearReserva(id_usuario, isbn, fecha) ==
    /\ LET r == crear_reserva(Estado, id_usuario, isbn, fecha)
       IN  /\ Pasa(r.estado)
           /\ Cuenta(r.estado)
           /\ resultado' = r.resultado
    /\ op' = [nombre |-> "crear_reserva", id_usuario |-> id_usuario, isbn |-> isbn]

CancelarReserva(id_usuario, isbn) ==
    /\ LET r == cancelar_reserva(Estado, id_usuario, isbn)
       IN  /\ Pasa(r.estado)
           /\ Cuenta(r.estado)
           /\ resultado' = r.resultado
    /\ op' = [nombre |-> "cancelar_reserva", id_usuario |-> id_usuario, isbn |-> isbn]

EliminarUsuario(id_usuario) ==
    /\ LET r == eliminar_usuario(Estado, id_usuario)
       IN  /\ Pasa(r.estado)
           /\ Cuenta(r.estado)
           /\ resultado' = r.resultado
    /\ op' = [nombre |-> "eliminar_usuario", id_usuario |-> id_usuario]

NextSistema ==
    \/ \E id_usuario \in Usuarios, isbn \in ISBNsSistema, fecha \in FechasSistema :
            CrearPrestamo(id_usuario, isbn, fecha)
    \/ \E id_usuario \in Usuarios, isbn \in ISBNsSistema, fecha \in FechasSistema :
            DevolverLibro(id_usuario, isbn, fecha)
    \/ \E id_usuario \in Usuarios, isbn \in ISBNsSistema, fecha \in FechasSistema :
            CrearReserva(id_usuario, isbn, fecha)
    \/ \E id_usuario \in Usuarios, isbn \in ISBNsSistema :
            CancelarReserva(id_usuario, isbn)
    \/ \E id_usuario \in Usuarios : EliminarUsuario(id_usuario)

ActualizarLibro(isbn_original, isbn, n) ==
    /\ Refs \ DOMAIN eliminar_libro(Estado, isbn_original).estado.stock # {}
    /\ LET r == actualizar_libro(Estado, isbn_original, isbn, n)
       IN  /\ Pasa(r.estado)
           /\ resultado' = [exito |-> r.ret]
    /\ op' = [nombre |-> "actualizar_libro", isbn_original |-> isbn_original,
              isbn |-> isbn, stock |-> n]
    /\ UNCHANGED pasos

NextInventario ==
    \/ \E isbn \in ISBNs, n \in StocksIniciales : AgregarLibro(isbn, n)
    \/ \E isbn \in ISBNs : EliminarLibro(isbn)

\* the stand-alone queue of the specifications that do not use it
InitColaSinUso ==
    /\ cola = Cola(None)
    /\ encolados = <<>>
    /\ desencolados = <<>>

\* the stand-alone stack of the specifications that do not use it
InitPilaSinUso ==
    /\ pila = Pila(None)
    /\ apilados = <<>>
    /\ desapilados = <<>>

Init == InitSistema /\ InitListas /\ InitColaSinUso /\ InitPilaSinUso /\ InitSalida /\ InitCuentas

\* loans, returns and reservations on loaded data
Spec == Init /\ [][NextSistema /\ UNCHANGED <<listvars, colavars, pilavars, salida, cuentavars>>]_vars

\* the loans and the returns of the last operation, counted by user and
\* ISBN: a successful crear_prestamo and an automatic loan are loans granted
Registrar ==
    /\ otorgados' =
          [par \in Usuarios \X ISBNs |->
              otorgados[par]
              + (IF /\ op'.nombre = "crear_prestamo"
                    /\ resultado'.exito
                    /\ par = <<op'.id_usuario, op'.isbn>>
                 THEN 1 ELSE 0)
              + (IF /\ op'.nombre = "devolver_libro"
                    /\ resultado'.exito
                    /\ resultado'.verificacion.prestamo_procesado = Some(TRUE)
                    /\ par = <<Valor(resultado'.usuario_asignado), op'.isbn>>
                 THEN 1 ELSE 0)]
    /\ devueltos' =
          [par \in Usuarios \X ISBNs |->
              devueltos[par]
              + (IF /\ op'.nombre = "devolver_libro"
                    /\ resultado'.exito
                    /\ par = <<op'.id_usuario, op'.isbn>>
                 THEN 1 ELSE 0)]

\* loans, returns and reservations on loaded data, the loans and the
\* returns counted
SpecCuentas ==
    Init /\ [][NextSistema /\ Registrar
                    /\ UNCHANGED <<listvars, colavars, pilavars, salida>>]_vars

\* the operations on the system, and books removed from the inventory
NextBajas ==
    \/ NextSistema
    \/ \E isbn \in ISBNsSistema : EliminarLibro(isbn)

\* loans, returns, reservations and removals of books and users
SpecBajas ==
    Init /\ [][NextBajas
                    /\ UNCHANGED <<listvars, colavars, pilavars, salida, cuentavars>>]_vars

\* the empty inventory
InitInventario ==
    InitVacio /\ InitListas /\ InitColaSinUso /\ InitPilaSinUso /\ InitSalida /\ InitCuentas

\* books added and removed, from the empty inventory
SpecInventario ==
    InitInventario /\ [][NextInventario /\ UNCHANGED <<listvars, colavars, pilavars, salida, cuentavars>>]_vars

\* books added, removed and updated
NextActualizar ==
    \/ NextInventario
    \/ \E isbn_original \in ISBNs, isbn \in ISBNs, n \in StocksIniciales :
            ActualizarLibro(isbn_original, isbn, n)

\* books added, removed and updated, from the empty inventory
SpecActualizar ==
    InitInventario
        /\ [][NextActualizar
                /\ UNCHANGED <<listvars, colavars, pilavars, salida, cuentavars>>]_vars

\* the empty list
InitLista ==
    InitVacio /\ InitListas /\ InitColaSinUso /\ InitPilaSinUso /\ InitSalida /\ InitCuentas

SpecListas ==
    InitLista /\ [][NextListas /\ UNCHANGED <<sysvars, colavars, pilavars, cuentavars>>]_vars

\* an empty Cola, with or without a capacity
InitColaSola ==
    InitVacio /\ InitListas /\ InitCola /\ InitPilaSinUso /\ InitSalida /\ InitCuentas

SpecCola ==
    InitColaSola /\ [][NextCola /\ UNCHANGED <<sysvars, listvars, pilavars, cuentavars>>]_vars

\* cola.remover_reserva(id_usuario, isbn)
Remover(id_usuario, isbn) ==
    /\ LET r == remover_reserva(cola, id_usuario, isbn)
       IN  /\ cola' = r.cola
           /\ salida' = [op |-> "remover_reserva", ret |-> r.ret, antes |-> cola,
                         id_usuario |-> id_usuario, isbn |-> isbn]
    /\ UNCHANGED <<encolados, desencolados>>

\* ISBNs a caller may hand to the queue of reservations: "a", "b", "b "
\* (padded), " " (blank)
EntradasReserva == {<<1>>, <<2>>, <<2, 0>>, <<0>>}

NextColaReservas ==
    \/ \E id_usuario \in EntradasUsuario, isbn \in EntradasReserva, fecha \in Fechas :
            Encolar(id_usuario, isbn, fecha)
    \/ Desencolar
    \/ \E id_usuario \in EntradasUsuario, isbn \in EntradasReserva :
            Remover(id_usuario, isbn)

\* the queue with records queued, returned from the head and removed
SpecColaReservas ==
    InitColaSola
        /\ [][NextColaReservas /\ UNCHANGED <<sysvars, listvars, pilavars, cuentavars>>]_vars

----------------------------------------------------------------------------
(* A Pila used on its own *)

CapacidadesPila == {None} \cup {Some(n) : n \in 1..MaxApilados}

InitPila ==
    /\ pila \in {Pila(capacidad) : capacidad \in CapacidadesPila}
    /\ apilados = <<>>
    /\ desapilados = <<>>

\* pila.apilar(isbn, fecha): the clock ticks at every record pushed, so the
\* fecha of a record is its rank among the records pushed
Apilar(isbn) ==
    /\ Len(apilados) < MaxApilados
    /\ LET r == apilar(pila, isbn, Len(apilados))
       IN  /\ pila' = r.pila
           /\ apilados' = IF r.ret
                           THEN Append(apilados, r.pila.elementos[Len(r.pila.elementos)])
                           ELSE apilados
           /\ salida' = [op |-> "apilar", ret |-> r.ret, excepcion |-> r.excepcion]
    /\ UNCHANGED desapilados

\* pila.desapilar()
Desapilar ==
    /\ LET r == desapilar(pila)
       IN  /\ pila' = r.pila
           /\ desapilados' = IF r.ret = None THEN desapilados
                              ELSE Append(desapilados, Valor(r.ret))
           /\ salida' = [op |-> "desapilar", ret |-> r.ret]
    /\ UNCHANGED apilados

\* pila.tope()
Tope ==
    /\ LET r == tope(pila)
       IN  /\ pila' = r.pila
           /\ salida' = [op |-> "tope", ret |-> r.ret, antes |-> pila]
    /\ UNCHANGED <<apilados, desapilados>>

\* pila.obtener_todos()
ObtenerTodos ==
    /\ salida' = [op |-> "obtener_todos", ret |-> Pila_obtener_todos(pila)]
    /\ UNCHANGED pilavars

NextPila ==
    \/ \E isbn \in Entradas : Apilar(isbn)
    \/ Desapilar
    \/ Tope
    \/ ObtenerTodos

InitPilaSola ==
    InitVacio /\ InitListas /\ InitColaSinUso /\ InitPila /\ InitSalida /\ InitCuentas

SpecPila ==
    InitPilaSola /\ [][NextPila /\ UNCHANGED <<sysvars, listvars, colavars, cuentavars>>]_vars

----------------------------------------------------------------------------
(* The inventory loaded from a data file *)

\* the lists of books a data file may hold: up to MaxLista books in any
\* order, ISBNs repeated or not, every book an object of its own
ListasDeArchivo ==
    UNION {{[i \in 1..n |-> [isbn |-> f[i], ref |-> i]] : f \in [1..n -> ISBNs]} :
           n \in 0..MaxLista}

InitArchivo ==
    /\ InitVacio /\ InitColaSinUso /\ InitPilaSinUso /\ InitSalida /\ InitCuentas
    /\ lista \in ListasDeArchivo
    /\ buscado = <<>>

\* ordenamiento_insercion(lista), in place
Ordenar ==
    /\ lista' = ordenamiento_insercion(lista)
    /\ salida' = [op |-> "ordenamiento_insercion", antes |-> lista]
    /\ UNCHANGED <<sysvars, buscado>>

\* GestorInventario.cargar_inventario() on a file that holds lista, every
\* book with stock n
Cargar(n) ==
    /\ inventario_general' = cargar_inventario(lista).inventario_general
    /\ inventario_ordenado' = cargar_inventario(lista).inventario_ordenado
    /\ stock' = [r \in RefsDe(lista) |-> n]
    /\ op' = [nombre |-> "cargar_inventario"]
    /\ UNCHANGED <<usuarios, cola_reservas, historial_prestamos, resultado, antes,
                   pasos, lista, buscado, salida>>

NextArchivo ==
    \/ Ordenar
    \/ \E n \in StocksIniciales : Cargar(n)

SpecArchivo ==
    InitArchivo /\ [][NextArchivo /\ UNCHANGED <<colavars, pilavars, cuentavars>>]_vars

\* busqueda_binaria_recursiva(lista, isbn_buscado), fin left to its default
BuscarRecursiva(isbn_buscado) ==
    /\ buscado' = isbn_buscado
    /\ salida' = [op |-> "busqueda_binaria_recursiva",
                  ret |-> busqueda_binaria_recursiva(lista, isbn_buscado, 0, None),
                  examinados |-> examinados_recursiva(lista, isbn_buscado, 0, None)]
    /\ UNCHANGED <<sysvars, lista>>

\* contar_comparaciones_binaria(lista, isbn_buscado)
ContarComparaciones(isbn_buscado) ==
    /\ buscado' = isbn_buscado
    /\ salida' = [op |-> "contar_comparaciones_binaria",
                  ret |-> contar_comparaciones_binaria(lista, isbn_buscado)]
    /\ UNCHANGED <<sysvars, lista>>

NextBusqueda ==
    \/ \E isbn_buscado \in Entradas : BuscarRecursiva(isbn_buscado)
    \/ \E isbn_buscado \in Entradas : ContarComparaciones(isbn_buscado)

\* the two other binary searches on the lists of a file, sorted or not
SpecBusqueda ==
    InitArchivo /\ [][NextBusqueda /\ UNCHANGED <<colavars, pilavars, cuentavars>>]_vars

----------------------------------------------------------------------------
(* Properties. op is the last operation called, antes the state it was     *)
(* called in, resultado what it returned.                                  *)

\* the last operation was a return that succeeded
Devolucion == op.nombre = "devolver_libro" /\ resultado.exito

\* the returned book, its stock before and after the return
LibroDevuelto == Valor(buscar_por_isbn(antes, op.isbn))
StockAntes == antes.stock[LibroDevuelto.ref]
StockAhora == stock[LibroDevuelto.ref]

\* what obtener_siguiente_usuario(op.isbn) returned, and the queue without
\* that record
SiguienteAntes == obtener_siguiente_usuario(antes.cola_reservas, op.isbn)
ColaSinSiguiente ==
    SinElemento(antes.cola_reservas.elementos,
                Minimo(IndicesLibro(antes.cola_reservas, op.isbn)))

\* the records of the history of a user in state s (none: no Pila yet)
HistorialDe(s, id_usuario) ==
    IF id_usuario \in DOMAIN s.historial_prestamos
    THEN s.historial_prestamos[id_usuario].elementos
    ELSE <<>>

\* the users as they are when the reservation is fulfilled: the returning
\* user's count already decremented
UsuariosAlAsignar ==
    [antes.usuarios EXCEPT ![op.id_usuario] = decrementar_prestamos(@)]

\* C1: on a successful return of book I with at least one reservation for I
\* queued, the record removed from the queue (and processed) is exactly the
\* record obtener_siguiente_usuario(I) returned, whatever else is queued.
C1_RemovidoEsElSiguiente ==
    (Devolucion /\ SiguienteAntes # None) =>
        /\ resultado.verificacion.reserva_procesada = SiguienteAntes
        /\ cola_reservas.elementos = ColaSinSiguiente

\* stock of I is 0, the queue holds exactly one record, (U, I), U is
\* another user than the one returning I, and U is eligible to borrow
UnicaReserva ==
    /\ Devolucion
    /\ StockAntes = 0
    /\ Len(antes.cola_reservas.elementos) = 1
    /\ antes.cola_reservas.elementos[1].isbn = op.isbn
    /\ antes.cola_reservas.elementos[1].id_usuario # op.id_usuario
    /\ antes.cola_reservas.elementos[1].id_usuario \in DOMAIN antes.usuarios
    /\ puede_prestar(antes.usuarios[antes.cola_reservas.elementos[1].id_usuario])

\* C2: stock of I 0, the only reservation is (U, I) with U eligible, and
\* another user returns I: the stock of I is 0 when the return ends.
C2_StockFinalCero == UnicaReserva => StockAhora = 0

\* C3: in the same situation, the returning user U2 having a loan to
\* return: afterwards no record for I is queued, U's loan count is one
\* higher, U's history has one more entry, for I, on top of the previous
\* ones, and U2's loan count is one lower.
C3_PrestamoAutomatico ==
    (UnicaReserva /\ antes.usuarios[op.id_usuario].libros_prestados > 0) =>
        LET U == antes.cola_reservas.elementos[1].id_usuario
            h == HistorialDe(Estado, U)
            hAntes == HistorialDe(antes, U)
        IN  /\ IndicesLibro(cola_reservas, op.isbn) = {}
            /\ usuarios[U].libros_prestados = antes.usuarios[U].libros_prestados + 1
            /\ Len(h) = Len(hAntes) + 1
            /\ SubSeq(h, 1, Len(hAntes)) = hAntes
            /\ h[Len(h)].isbn = op.isbn
            /\ usuarios[op.id_usuario].libros_prestados =
                   antes.usuarios[op.id_usuario].libros_prestados - 1

\* v returns I, the only reservation is u's, for I, and u is assigned I
C3_Testigo ==
    /\ UnicaReserva
    /\ antes.usuarios[op.id_usuario].libros_prestados > 0
    /\ resultado.usuario_asignado = Some(antes.cola_reservas.elementos[1].id_usuario)
    /\ resultado.verificacion.prestamo_procesado = Some(TRUE)

\* C4: a successful return of I with no reservation for I queued raises
\* the stock of I by exactly 1 and leaves the queue as it was.
C4_SinReserva ==
    (Devolucion /\ SiguienteAntes = None) =>
        /\ StockAhora = StockAntes + 1
        /\ cola_reservas = antes.cola_reservas

\* a return of I while only reservations for another book are queued
C4_Testigo ==
    /\ Devolucion
    /\ SiguienteAntes = None
    /\ antes.cola_reservas.elementos # <<>>
    /\ StockAntes = 0

\* the ISBNs of a list of books
IsbnsDe(l) == {l[i].isbn : i \in 1..Len(l)}

\* strictly ascending by ISBN
Ascendente(l) == \A i \in 1..(Len(l) - 1) : StrLess(l[i].isbn, l[i + 1].isbn)

\* non-decreasing by ISBN
NoDecreciente(l) == \A i \in 1..(Len(l) - 1) : StrLeq(l[i].isbn, l[i + 1].isbn)

\* C5: after any sequence of agregar_libro and eliminar_libro from the
\* empty inventory, the two lists have the same length and the same set of
\* ISBNs, and inventario_ordenado is strictly ascending by ISBN.
C5_InventariosConsistentes ==
    /\ Len(inventario_general) = Len(inventario_ordenado)
    /\ IsbnsDe(inventario_general) = IsbnsDe(inventario_ordenado)
    /\ Ascendente(inventario_ordenado)

\* a book was removed and the two books left are in a different order in
\* the two lists
C5_Testigo ==
    /\ op.nombre = "eliminar_libro"
    /\ Len(antes.inventario_general) = 3
    /\ Len(inventario_general) = 2
    /\ inventario_general # inventario_ordenado

\* C6: on a list sorted ascending by ISBN with unique ISBNs,
\* busqueda_binaria returns an index whose element has the searched ISBN
\* (compared trimmed, as the search compares) when it is present, and -1
\* when it is absent.
C6_BusquedaCorrecta ==
    (salida.op = "busqueda_binaria" /\ Ascendente(lista)) =>
        IF strip(buscado) \in IsbnsDe(lista)
        THEN /\ salida.ret \in 0..(Len(lista) - 1)
             /\ lista[salida.ret + 1].isbn = strip(buscado)
        ELSE salida.ret = -1

\* the last of three books was searched and found
C6_Testigo ==
    /\ salida.op = "busqueda_binaria"
    /\ Ascendente(lista)
    /\ Len(lista) = 3
    /\ lista[3].isbn = strip(buscado)
    /\ salida.ret = 2

\* C7: insertar_ordenado on a sorted list gives a non-decreasing list one
\* longer, with the previous elements in their order, the new element
\* after every element of equal key.
C7_InsercionOrdenada ==
    (salida.op = "insertar_ordenado" /\ NoDecreciente(salida.antes)) =>
        /\ NoDecreciente(lista)
        /\ Len(lista) = Len(salida.antes) + 1
        /\ \E p \in 1..Len(lista) :
            /\ lista[p] = salida.nuevo_libro
            /\ SinElemento(lista, p) = salida.antes
            /\ \A i \in 1..Len(lista) :
                (i # p /\ lista[i].isbn = salida.nuevo_libro.isbn) => i < p

\* a book was inserted whose ISBN a book of the list already had, with a
\* book of greater ISBN behind
C7_Testigo ==
    /\ salida.op = "insertar_ordenado"
    /\ Len(salida.antes) = 2
    /\ salida.antes[1].isbn = salida.nuevo_libro.isbn
    /\ StrLess(salida.nuevo_libro.isbn, salida.antes[2].isbn)

\* C8: when the ISBN is not found in the sorted inventory, devolver_libro
\* reports failure and changes no stock, no loan count, not the queue and
\* no history.
C8_LibroNoEncontrado ==
    (/\ op.nombre = "devolver_libro"
     /\ busqueda_binaria(antes.inventario_ordenado, op.isbn) = -1) =>
        /\ ~resultado.exito
        /\ Estado = antes

\* a user with a loan returns a book that is not in the inventory
C8_Testigo ==
    /\ op.nombre = "devolver_libro"
    /\ busqueda_binaria(antes.inventario_ordenado, op.isbn) = -1
    /\ resultado.mensaje = "Book not found"
    /\ antes.usuarios[op.id_usuario].libros_prestados > 0

\* C9: when the next reservation for the returned book I is of a user who
\* is registered but may not borrow when it is fulfilled, the stock of I is
\* incremented a second time, that reservation is removed and not queued
\* again, no other reservation is processed, and the reserved user's loan
\* count and history are unchanged.
C9_ReservaDeNoElegible ==
    (/\ Devolucion
     /\ SiguienteAntes # None
     /\ Valor(SiguienteAntes).id_usuario \in DOMAIN antes.usuarios
     /\ ~puede_prestar(UsuariosAlAsignar[Valor(SiguienteAntes).id_usuario])) =>
        LET U == Valor(SiguienteAntes).id_usuario
        IN  /\ StockAhora = StockAntes + 2
            /\ cola_reservas.elementos = ColaSinSiguiente
            /\ usuarios[U] = UsuariosAlAsignar[U]
            /\ HistorialDe(Estado, U) = HistorialDe(antes, U)

\* C10: desencolar returns the records in the order they were queued,
\* whatever their ISBNs: the records queued are those returned, in order,
\* followed by those still queued.
C10_FIFO == encolados = desencolados \o cola.elementos

\* records of two different books were returned and one is still queued
C10_Testigo ==
    /\ Len(desencolados) = 2
    /\ desencolados[1].isbn # desencolados[2].isbn
    /\ Len(cola.elementos) = 1
    /\ salida.op = "desencolar"

\* the elements of a sequence
Rango(l) == {l[i] : i \in 1..Len(l)}

\* the records pushed and not returned by the first n calls of desapilar
\* that returned a record
Pendientes(n) == Rango(apilados) \ Rango(SubSeq(desapilados, 1, n))

\* r is the record pushed last among the records of the set S
MasReciente(r, S) == r \in S /\ \A x \in S : x.fecha <= r.fecha

\* C11: desapilar returns the records in reverse order of insertion: the
\* record it returns is the most recently pushed record not yet returned;
\* tope returns that record (None on an empty stack) and leaves the stack
\* as it was.
C11_LIFO ==
    /\ (salida.op = "desapilar" /\ salida.ret # None) =>
            MasReciente(Valor(salida.ret), Pendientes(Len(desapilados) - 1))
    /\ (salida.op = "desapilar" /\ salida.ret = None) =>
            Pendientes(Len(desapilados)) = {}
    /\ salida.op = "tope" =>
            /\ pila = salida.antes
            /\ IF Pendientes(Len(desapilados)) = {} THEN salida.ret = None
               ELSE /\ salida.ret # None
                    /\ MasReciente(Valor(salida.ret), Pendientes(Len(desapilados)))

\* x then y were pushed, and desapilar returned y then x
C11_Testigo ==
    /\ salida.op = "desapilar"
    /\ Len(apilados) = 2
    /\ desapilados = <<apilados[2], apilados[1]>>
    /\ apilados[1].isbn # apilados[2].isbn

\* the book of the last operation was found in the inventory
LibroHallado == buscar_por_isbn(antes, op.isbn) # None

\* C12: crear_reserva for a book whose stock is > 0 fails and leaves the
\* queue unchanged; whenever crear_reserva changes the queue it appends one
\* record, for that user and book, and the stock of the book was 0.
C12_ReservaSoloSinStock ==
    op.nombre = "crear_reserva" =>
        /\ (LibroHallado /\ StockAntes > 0) =>
                /\ ~resultado.exito
                /\ cola_reservas = antes.cola_reservas
        /\ (resultado.exito \/ cola_reservas # antes.cola_reservas) =>
                /\ LibroHallado
                /\ StockAntes = 0
                /\ Len(cola_reservas.elementos) = Len(antes.cola_reservas.elementos) + 1
                /\ SubSeq(cola_reservas.elementos, 1, Len(antes.cola_reservas.elementos))
                        = antes.cola_reservas.elementos
                /\ cola_reservas.elementos[Len(cola_reservas.elementos)].isbn = op.isbn
                /\ cola_reservas.elementos[Len(cola_reservas.elementos)].id_usuario
                        = op.id_usuario

\* a reservation of a book in stock was refused while another book had a
\* reservation queued
C12_Testigo ==
    /\ op.nombre = "crear_reserva"
    /\ LibroHallado
    /\ StockAntes > 0
    /\ ~resultado.exito
    /\ antes.cola_reservas.elementos # <<>>

\* no two records of the queue c have the same user and the same book
SinRepetidos(c) ==
    \A i, j \in 1..Len(c.elementos) :
        (/\ c.elementos[i].id_usuario = c.elementos[j].id_usuario
         /\ c.elementos[i].isbn = c.elementos[j].isbn) => i = j

\* C13: after any sequence of crear_reserva, cancelar_reserva and returns
\* from the empty queue, every (user, book) pair is queued at most once; a
\* crear_reserva for a pair already queued fails and leaves the queue
\* unchanged.
C13_ParUnico ==
    /\ SinRepetidos(cola_reservas)
    /\ (/\ op.nombre = "crear_reserva"
        /\ tiene_reserva(antes.cola_reservas, op.id_usuario, op.isbn)) =>
            /\ ~resultado.exito
            /\ cola_reservas = antes.cola_reservas

\* a reservation was refused because the pair was queued already
C13_Testigo ==
    /\ op.nombre = "crear_reserva"
    /\ tiene_reserva(antes.cola_reservas, op.id_usuario, op.isbn)
    /\ LibroHallado
    /\ StockAntes = 0
    /\ resultado.mensaje = "User already has a reservation"

\* the last operation was a return that lent the book to the next user
PrestamoAutomatico ==
    /\ Devolucion
    /\ resultado.verificacion.prestamo_procesado = Some(TRUE)

\* C14: every user's loan count is between 0 and max_prestamos, and a loan,
\* manual or automatic, is never granted to a user who is inactive or at
\* max_prestamos when it is granted.
C14_TopeDePrestamos ==
    /\ \A u \in DOMAIN usuarios :
        /\ 0 <= usuarios[u].libros_prestados
        /\ usuarios[u].libros_prestados <= usuarios[u].max_prestamos
    /\ (op.nombre = "crear_prestamo" /\ resultado.exito) =>
        /\ antes.usuarios[op.id_usuario].activo
        /\ antes.usuarios[op.id_usuario].libros_prestados
                < antes.usuarios[op.id_usuario].max_prestamos
    /\ PrestamoAutomatico =>
        LET U == Valor(resultado.usuario_asignado)
        IN  /\ UsuariosAlAsignar[U].activo
            /\ UsuariosAlAsignar[U].libros_prestados < UsuariosAlAsignar[U].max_prestamos

\* a loan was refused to an active user at max_prestamos
C14_Testigo ==
    /\ op.nombre = "crear_prestamo"
    /\ ~resultado.exito
    /\ op.id_usuario \in DOMAIN antes.usuarios
    /\ antes.usuarios[op.id_usuario].activo
    /\ antes.usuarios[op.id_usuario].libros_prestados
            = antes.usuarios[op.id_usuario].max_prestamos
    /\ LibroHallado
    /\ StockAntes > 0

\* C15: eliminar_usuario on a registered user with a loan count > 0 fails
\* and leaves the registry unchanged; with a count of 0 it removes the user
\* and no other.
C15_EliminarUsuario ==
    (op.nombre = "eliminar_usuario" /\ op.id_usuario \in DOMAIN antes.usuarios) =>
        IF antes.usuarios[op.id_usuario].libros_prestados > 0
        THEN ~resultado.exito /\ usuarios = antes.usuarios
        ELSE /\ resultado.exito
             /\ DOMAIN usuarios = DOMAIN antes.usuarios \ {op.id_usuario}
             /\ \A u \in DOMAIN usuarios : usuarios[u] = antes.usuarios[u]

\* the deletion of a user with a loan was refused
C15_Testigo ==
    /\ op.nombre = "eliminar_usuario"
    /\ op.id_usuario \in DOMAIN antes.usuarios
    /\ antes.usuarios[op.id_usuario].libros_prestados > 0
    /\ ~resultado.exito

\* the number of loans the last operation granted to user u
PrestamosOtorgados(u) ==
    (IF op.nombre = "crear_prestamo" /\ resultado.exito /\ op.id_usuario = u
     THEN 1 ELSE 0)
    + (IF PrestamoAutomatico /\ resultado.usuario_asignado = Some(u) THEN 1 ELSE 0)

\* C16: the history of every user after an operation has the history
\* before it as a prefix, with exactly one entry more for every loan,
\* manual or automatic, the operation granted to that user; the return
\* itself leaves the history of the returning user as it was.
C16_HistorialSoloCrece ==
    op.nombre # "ninguna" =>
        /\ \A u \in Usuarios :
            /\ Len(HistorialDe(Estado, u))
                    = Len(HistorialDe(antes, u)) + PrestamosOtorgados(u)
            /\ SubSeq(HistorialDe(Estado, u), 1, Len(HistorialDe(antes, u)))
                    = HistorialDe(antes, u)
        /\ (Devolucion /\ resultado.usuario_asignado # Some(op.id_usuario)) =>
                HistorialDe(Estado, op.id_usuario) = HistorialDe(antes, op.id_usuario)

\* a return lent the book to a user who had a history already
C16_Testigo ==
    /\ PrestamoAutomatico
    /\ resultado.usuario_asignado # Some(op.id_usuario)
    /\ HistorialDe(antes, Valor(resultado.usuario_asignado)) # <<>>
    /\ HistorialDe(antes, Valor(resultado.usuario_asignado))[1].isbn # op.isbn

\* a sequence in reverse order
Reverso(l) == [i \in 1..Len(l) |-> l[Len(l) + 1 - i]]

\* C17: Pila.obtener_todos returns the records most recent first, the
\* reverse of the storage order, and leaves the stack as it was.
C17_MasRecientePrimero ==
    salida.op = "obtener_todos" => salida.ret = Reverso(pila.elementos)

\* record r is the reservation of id_usuario for isbn
EsReserva(r, id_usuario, isbn) == r.id_usuario = id_usuario /\ r.isbn = isbn

\* C18: remover_reserva removes exactly one record, the first of the user
\* and the book, wherever it is in the queue, keeps the other records in
\* their order and returns True; with no such record it returns False and
\* leaves the queue as it was.
C18_RemoverReserva ==
    salida.op = "remover_reserva" =>
        LET e0 == salida.antes.elementos
            e1 == cola.elementos
            coinciden == {i \in 1..Len(e0) : EsReserva(e0[i], salida.id_usuario, salida.isbn)}
        IN  /\ cola.capacidad_max = salida.antes.capacidad_max
            /\ IF coinciden = {}
               THEN ~salida.ret /\ e1 = e0
               ELSE /\ salida.ret
                    /\ Len(e1) = Len(e0) - 1
                    /\ \E p \in coinciden :
                        /\ \A q \in coinciden : p <= q
                        /\ \A i \in 1..Len(e1) :
                              e1[i] = IF i < p THEN e0[i] ELSE e0[i + 1]

\* a reservation queued twice was removed from a queue of three records:
\* the first of the two went, the record between them is now at the head
C18_Testigo ==
    /\ salida.op = "remover_reserva"
    /\ salida.ret
    /\ Len(salida.antes.elementos) = 3
    /\ EsReserva(salida.antes.elementos[1], salida.id_usuario, salida.isbn)
    /\ ~EsReserva(salida.antes.elementos[2], salida.id_usuario, salida.isbn)
    /\ EsReserva(salida.antes.elementos[3], salida.id_usuario, salida.isbn)

\* the queue c has a capacity and holds that many records or more
EnCapacidad(c) ==
    c.capacidad_max # None /\ Len(c.elementos) >= Valor(c.capacidad_max)

Posicion(l, x) == CHOOSE i \in 1..Len(l) : l[i] = x

\* r is the list e sorted ascending by ISBN: the same objects, in
\* non-decreasing order, objects of equal ISBN in the order they have in e
OrdenEstable(e, r) ==
    /\ Len(r) = Len(e)
    /\ Rango(r) = Rango(e)
    /\ NoDecreciente(r)
    /\ \A i, j \in 1..Len(r) :
        (i < j /\ r[i].isbn = r[j].isbn) => Posicion(e, r[i]) < Posicion(e, r[j])

\* C20: ordenamiento_insercion turns any list into an ascending permutation
\* of the same elements with equal keys in their original order, and after
\* cargar_inventario the sorted inventory is that permutation of the
\* general inventory.
C20_OrdenamientoInsercion ==
    /\ salida.op = "ordenamiento_insercion" => OrdenEstable(salida.antes, lista)
    /\ op.nombre = "cargar_inventario" =>
            OrdenEstable(inventario_general, inventario_ordenado)

\* a list of three books was sorted, two of equal ISBN before one of
\* smaller ISBN
C20_Testigo ==
    /\ salida.op = "ordenamiento_insercion"
    /\ Len(salida.antes) = 3
    /\ salida.antes[1].isbn = salida.antes[2].isbn
    /\ StrLess(salida.antes[3].isbn, salida.antes[1].isbn)
    /\ lista # salida.antes

\* the last operation was devolver_libro called by a registered user
DevolucionPedida ==
    op.nombre = "devolver_libro" /\ op.id_usuario \in DOMAIN antes.usuarios

\* the terminal states of a return
BOOK_NOT_FOUND ==
    ~resultado.exito /\ resultado.mensaje = "Book not found" /\ Estado = antes
NO_RESERVATION ==
    /\ resultado.exito
    /\ ~resultado.verificacion.tiene_reservas
    /\ resultado.verificacion.prestamo_procesado = None
AUTO_LOAN_SUCCESS ==
    /\ resultado.exito
    /\ resultado.verificacion.tiene_reservas
    /\ resultado.verificacion.prestamo_procesado = Some(TRUE)
AUTO_LOAN_FAILED_RESTOCK ==
    /\ resultado.exito
    /\ resultado.verificacion.tiene_reservas
    /\ resultado.verificacion.prestamo_procesado = Some(FALSE)
    /\ StockAhora = StockAntes + 2

\* the return was refused because the history of the user has no entry
\* for the book; nothing changed
RETURN_REJECTED ==
    /\ ~resultado.exito
    /\ resultado.mensaje \in {"User has no loan history",
                              "User does not have this book on loan"}
    /\ Estado = antes

\* the reservation removed names a user who is not registered: no loan and
\* no second increment of the stock
AUTO_LOAN_FAILED_NO_USER ==
    /\ resultado.exito
    /\ resultado.verificacion.tiene_reservas
    /\ resultado.verificacion.prestamo_procesado = Some(FALSE)
    /\ Valor(resultado.usuario_asignado) \notin DOMAIN usuarios
    /\ StockAhora = StockAntes + 1

\* how many of the predicates of the sequence l hold
RECURSIVE Ciertos(_)
Ciertos(l) ==
    IF l = <<>> THEN 0 ELSE (IF Head(l) THEN 1 ELSE 0) + Ciertos(Tail(l))

\* an automatic loan is attempted, and a record leaves the queue, only when
\* the peek found a reservation for the returned book
SoloTrasReserva ==
    /\ (resultado.exito /\ resultado.verificacion.prestamo_procesado # None) =>
            SiguienteAntes # None
    /\ cola_reservas # antes.cola_reservas => SiguienteAntes # None

\* C21 as stated: every return called by a registered user ends in exactly
\* one of BOOK_NOT_FOUND, NO_RESERVATION, AUTO_LOAN_SUCCESS and
\* AUTO_LOAN_FAILED_RESTOCK, a loan attempted and a record removed only
\* after the peek found a reservation for the book.
C21_CuatroEstados ==
    DevolucionPedida =>
        /\ Ciertos(<<BOOK_NOT_FOUND, NO_RESERVATION, AUTO_LOAN_SUCCESS,
                     AUTO_LOAN_FAILED_RESTOCK>>) = 1
        /\ SoloTrasReserva

\* C21 amended: the return ends in exactly one of those four states, or in
\* RETURN_REJECTED (no entry for the book in the user's history, nothing
\* changed), or in AUTO_LOAN_FAILED_NO_USER (the reserving user is no longer
\* registered: no loan, no restock); a loan is attempted and a record is
\* removed only after the peek found a reservation for the book.
C21_SeisEstados ==
    DevolucionPedida =>
        /\ Ciertos(<<BOOK_NOT_FOUND, NO_RESERVATION, AUTO_LOAN_SUCCESS,
                     AUTO_LOAN_FAILED_RESTOCK, RETURN_REJECTED,
                     AUTO_LOAN_FAILED_NO_USER>>) = 1
        /\ SoloTrasReserva

\* a return ended with the reservation of a deleted user removed
C21_Testigo ==
    /\ DevolucionPedida
    /\ AUTO_LOAN_FAILED_NO_USER
    /\ cola_reservas # antes.cola_reservas

\* the returning user is active, holds max_prestamos books, and has the
\* next reservation for the book returned
DevuelveSuReserva ==
    /\ Devolucion
    /\ SiguienteAntes # None
    /\ Valor(SiguienteAntes).id_usuario = op.id_usuario
    /\ antes.usuarios[op.id_usuario].activo
    /\ antes.usuarios[op.id_usuario].libros_prestados
            = antes.usuarios[op.id_usuario].max_prestamos

\* C22: the stock is incremented and the returning user's count decremented
\* before the reservation check and the eligibility check: a returning user
\* at max_prestamos who has the next reservation for the book is evaluated
\* with the decremented count, so the automatic loan is granted to them.
C22_EvaluadoTrasDecremento ==
    DevuelveSuReserva =>
        /\ resultado.verificacion.prestamo_procesado = Some(TRUE)
        /\ resultado.usuario_asignado = Some(op.id_usuario)
        /\ usuarios[op.id_usuario].libros_prestados
                = antes.usuarios[op.id_usuario].libros_prestados
        /\ StockAhora = StockAntes + 1

\* C23: agregar_libro with an ISBN a book of the inventory has returns
\* False and leaves both lists (and every stock) as they were; it succeeds
\* exactly when the binary search on the sorted list does not find the ISBN.
C23_IsbnRepetido ==
    op.nombre = "agregar_libro" =>
        /\ op.isbn \in IsbnsDe(antes.inventario_general)
                            \cup IsbnsDe(antes.inventario_ordenado) =>
                /\ ~resultado.exito
                /\ inventario_general = antes.inventario_general
                /\ inventario_ordenado = antes.inventario_ordenado
                /\ stock = antes.stock
        /\ resultado.exito = (busqueda_binaria(antes.inventario_ordenado, op.isbn) = -1)

\* a book was refused whose ISBN the last of two books of the sorted list has
C23_Testigo ==
    /\ op.nombre = "agregar_libro"
    /\ Len(antes.inventario_ordenado) = 2
    /\ antes.inventario_ordenado[2].isbn = op.isbn
    /\ antes.inventario_general[1].isbn = op.isbn
    /\ ~resultado.exito

\* the sum of f over the set S
RECURSIVE Suma(_, _)
Suma(f, S) ==
    IF S = {} THEN 0
    ELSE LET x == CHOOSE y \in S : TRUE IN f[x] + Suma(f, S \ {x})

\* the copies on the shelves plus the copies on loan, in the state s
Ejemplares(s) ==
    Suma(s.stock, DOMAIN s.stock)
        + Suma([u \in DOMAIN s.usuarios |-> s.usuarios[u].libros_prestados],
               DOMAIN s.usuarios)

\* C24: every successful crear_prestamo, and every successful
\* devolver_libro of a user with at least one active loan, leaves the sum
\* of every stock and every libros_prestados unchanged.
C24_EjemplaresConservados ==
    /\ op.nombre \in {"crear_prestamo", "devolver_libro"}
    /\ resultado.exito
    /\ op.nombre = "devolver_libro" =>
           antes.usuarios[op.id_usuario].libros_prestados >= 1
    => Ejemplares(Estado) = Ejemplares(antes)

\* C25: for every user U and ISBN I the successful devolver_libro(U, I)
\* calls never outnumber the loans of I granted to U (so a second return of
\* an only loan does not succeed).
C25_NoMasDevueltosQueOtorgados ==
    \A par \in Usuarios \X ISBNs : devueltos[par] <= otorgados[par]

\* C26: whenever the reservation queue holds a reservation for ISBN I, the
\* stock of the book I is 0.
C26_ReservadoSinStock ==
    \A i \in 1..Len(cola_reservas.elementos) :
        LET libro == buscar_por_isbn(Estado, cola_reservas.elementos[i].isbn)
        IN  libro # None => stock[Valor(libro).ref] = 0

\* C27: a successful devolver_libro reports reserva_asignada = True with a
\* usuario_asignado only when that user received the book in the call: the
\* user's loan count is one more than when the reservation was fulfilled
\* and an entry for the returned ISBN was pushed on the user's history.
C27_AsignadaSoloSiPrestado ==
    (Devolucion /\ resultado.reserva_asignada) =>
        /\ resultado.usuario_asignado # None
        /\ LET U == Valor(resultado.usuario_asignado)
           IN  /\ U \in DOMAIN antes.usuarios
               /\ U \in DOMAIN usuarios
               /\ usuarios[U].libros_prestados
                        = UsuariosAlAsignar[U].libros_prestados + 1
               /\ Len(HistorialDe(Estado, U)) = Len(HistorialDe(antes, U)) + 1
               /\ HistorialDe(Estado, U)[Len(HistorialDe(Estado, U))].isbn = op.isbn

\* C28: every record of the reservation queue names an ISBN of a book of
\* the inventory and a user of the registry.
C28_IntegridadReferencial ==
    \A i \in 1..Len(cola_reservas.elementos) :
        /\ buscar_por_isbn(Estado, cola_reservas.elementos[i].isbn) # None
        /\ cola_reservas.elementos[i].id_usuario \in DOMAIN usuarios

\* C29: actualizar_libro(isbn_original, libro_actualizado) on a book of the
\* inventory is all or nothing: when it returns False both lists are as
\* they were and the book isbn_original is still there; when it returns
\* True the updated book is in both lists and, unless it keeps the ISBN,
\* the original is in neither.
C29_TodoONada ==
    (/\ op.nombre = "actualizar_libro"
     /\ op.isbn_original \in IsbnsDe(antes.inventario_general)) =>
        IF resultado.exito
        THEN /\ op.isbn \in IsbnsDe(inventario_general)
             /\ op.isbn \in IsbnsDe(inventario_ordenado)
             /\ op.isbn # op.isbn_original =>
                    /\ op.isbn_original \notin IsbnsDe(inventario_general)
                    /\ op.isbn_original \notin IsbnsDe(inventario_ordenado)
        ELSE /\ inventario_general = antes.inventario_general
             /\ inventario_ordenado = antes.inventario_ordenado
             /\ op.isbn_original \in IsbnsDe(inventario_general)

\* floor(log2(n)) for n >= 1
RECURSIVE Log2(_)
Log2(n) == IF n <= 1 THEN 0 ELSE 1 + Log2(n \div 2)

\* the most elements a binary search of a list of n elements examines
CotaBinaria(n) == IF n = 0 THEN 0 ELSE Log2(n) + 1

\* C30: for every list and every searched ISBN busqueda_binaria_recursiva
\* returns what the iterative busqueda_binaria returns, and both examine at
\* most floor(log2(n)) + 1 elements of a list of n >= 1 elements (none of
\* the empty list); the iterative loop is counted by
\* contar_comparaciones_binaria, which finds the same position.
C30_RecursivaIgualIterativa ==
    /\ salida.op = "busqueda_binaria_recursiva" =>
        /\ salida.ret = busqueda_binaria(lista, buscado)
        /\ salida.examinados <= CotaBinaria(Len(lista))
    /\ salida.op = "contar_comparaciones_binaria" =>
        /\ salida.ret.posicion = busqueda_binaria(lista, buscado)
        /\ salida.ret.encontrado = (salida.ret.posicion # -1)
        /\ salida.ret.comparaciones <= CotaBinaria(Len(lista))

\* the recursive search found the last of three books, the second element
\* it examined
C30_Testigo ==
    /\ salida.op = "busqueda_binaria_recursiva"
    /\ Len(lista) = 3
    /\ lista[3].isbn = strip(buscado)
    /\ buscado # strip(buscado)
    /\ salida.ret = 2
    /\ salida.examinados = 2

====
